---- MODULE Spec2Model ----
(***************************************************************************)
(* Model of the table compactor of                                         *)
(* pkg/storage/stores/shipper/index/compactor/table_compactor.go:          *)
(* CompactTable, prefetchUserIndexFiles, fetchUserCompactedIndexSet,       *)
(* getOrCreateUserCompactedIndexSet, compactIndexes, readFile and          *)
(* mustRecreateCompactedDB.                                                *)
(*                                                                         *)
(* A merge run (compactIndexes) is identified by the index-set it works    *)
(* on: Common for the table-common index-set, a tenant id for the merge    *)
(* that fetchUserCompactedIndexSet runs over that tenant's files.          *)
(* Entries are modelled by their keys: writeBatch is an upsert on the key. *)
(***************************************************************************)
EXTENDS Integers, Sequences, FiniteSets, TLC

\* ---------------------------------------------------------------- bounds
\* entries per batch handed to the callback (the package's batchSize, scaled)
BatchSize == 2
\* number of calls of collaborators that may fail in one run
MaxFaults == 1
\* number of source files of the whole table in one scenario
MaxTotalFiles == 4

\* ------------------------------------------------------ program constants
readDBsConcurrency == 50
\* recreateCompactedDBOlderThan, in hours
recreateCompactedDBOlderThan == 12

uploaderName == "compactor"
recreatedCompactedDBSuffix == ".r"
\* local.IndexBucketName: the section that holds the table-common entries
IndexBucketName == "index"

Tenants == {"t1", "t2"}
Common == "common"
Merges == {Common} \cup Tenants

Min(a, b) == IF a < b THEN a ELSE b
Range(s) == {s[i] : i \in 1..Len(s)}

\* ------------------------------------------------------------ file names
\* A file name is a sequence of tokens; strings.HasPrefix(name, tag) looks
\* at the first token, strings.Contains(name, tok) at all of them.
HasPrefix(name, tag) == Len(name) >= 1 /\ name[1] = tag
Contains(name, tok) == \E i \in 1..Len(name) : name[i] = tok

\* storage.IndexFile with the content of the database it names:
\* age is time.Since(ModifiedAt) in hours, secs the buckets in ForEach order.
File(name, age, secs) == [name |-> name, age |-> age, secs |-> secs]
Sec(name, keys) == [sec |-> name, keys |-> keys]

\* ------------------------------------------------------ pure functions
\* compactedFileIdx: index of the first file whose name starts with
\* uploaderName; 0 stands for the code's -1 (sequences are 1-based).
compactedFileIdx(fs) ==
    IF \E i \in 1..Len(fs) : HasPrefix(fs[i].name, uploaderName)
    THEN CHOOSE i \in 1..Len(fs) :
            /\ HasPrefix(fs[i].name, uploaderName)
            /\ \A j \in 1..(i-1) : ~HasPrefix(fs[j].name, uploaderName)
    ELSE 0

mustRecreateIgnoringSuffix(fs) ==
    /\ Len(fs) = 1
    /\ HasPrefix(fs[1].name, uploaderName)
    /\ fs[1].age >= recreateCompactedDBOlderThan
mustRecreateCompactedDB(fs) ==
    IF Len(fs) # 1 THEN FALSE
    ELSE IF ~HasPrefix(fs[1].name, uploaderName) THEN FALSE
    ELSE IF fs[1].age < recreateCompactedDBOlderThan THEN FALSE
    ELSE ~Contains(fs[1].name, recreatedCompactedDBSuffix)

\* the condition of CompactTable line 126
NeedsCompactionWheneverListed(fs) == Len(fs) >= 1
NeedsCompactionWithoutRecreation(fs) ==
    \/ Len(fs) > 1
    \/ (Len(fs) = 1 /\ ~HasPrefix(fs[1].name, uploaderName))
NeedsCompaction(fs) ==
    \/ Len(fs) > 1
    \/ (Len(fs) = 1 /\ ~HasPrefix(fs[1].name, uploaderName))
    \/ mustRecreateCompactedDB(fs)

\* readFile: the calls of the callback for one bucket: one per full batch,
\* then one for what is left (which may be empty).
RECURSIVE ChunkLosingTrailing(_, _)
ChunkLosingTrailing(sec, keys) ==
    IF Len(keys) >= BatchSize
    THEN <<[sec |-> sec, keys |-> SubSeq(keys, 1, BatchSize)]>>
            \o ChunkLosingTrailing(sec, SubSeq(keys, BatchSize + 1, Len(keys)))
    ELSE <<[sec |-> sec, keys |-> <<>>]>>
RECURSIVE Chunk(_, _)
Chunk(sec, keys) ==
    IF Len(keys) >= BatchSize
    THEN <<[sec |-> sec, keys |-> SubSeq(keys, 1, BatchSize)]>>
            \o Chunk(sec, SubSeq(keys, BatchSize + 1, Len(keys)))
    ELSE <<[sec |-> sec, keys |-> keys]>>

\* readFile: the calls of the callback for a whole file, bucket by bucket
RECURSIVE BatchesOf(_)
BatchesOf(secs) ==
    IF secs = <<>> THEN <<>>
    ELSE Chunk(secs[1].sec, secs[1].keys) \o BatchesOf(Tail(secs))

Batches(f) == BatchesOf(f.secs)

\* the keys a database file holds in bucket sec
RECURSIVE KeysOfSecs(_, _)
KeysOfSecs(secs, sec) ==
    IF secs = <<>> THEN {}
    ELSE (IF secs[1].sec = sec THEN Range(secs[1].keys) ELSE {})
            \cup KeysOfSecs(Tail(secs), sec)
KeysOf(f, sec) == KeysOfSecs(f.secs, sec)

\* ------------------------------------------------------------- scenarios
\* Files of the table-common index-set (FORMAT1/FORMAT2 databases).
cSeedY == File(<<uploaderName, "1">>, 1, <<Sec(IndexBucketName, <<"c0">>)>>)
cSeedO == File(<<uploaderName, "2">>, 13, <<Sec(IndexBucketName, <<"c0">>)>>)
cSeedR == File(<<uploaderName, "3", recreatedCompactedDBSuffix>>, 13,
               <<Sec(IndexBucketName, <<"c0">>)>>)
rawC == File(<<"ingester", "1">>, 1, <<Sec(IndexBucketName, <<"c1", "c2", "c3">>)>>)
rawT == File(<<"ingester", "2">>, 1, <<Sec("t1", <<"a1">>), Sec("t2", <<"b1">>)>>)
rawM == File(<<"ingester", "3">>, 1,
             <<Sec(IndexBucketName, <<"c1">>), Sec("t1", <<"a2">>)>>)

\* an old file that no compaction produced
rawOld == File(<<"ingester", "4">>, 13, <<Sec(IndexBucketName, <<"c4">>)>>)

\* a file with a bucket of exactly two entries and an empty tenant bucket
rawE == File(<<"ingester", "5">>, 1,
             <<Sec(IndexBucketName, <<"c5", "c6">>), Sec("t2", <<>>)>>)

CommonListings ==
    { <<>>, <<cSeedY>>, <<cSeedO>>, <<cSeedR>>, <<rawM>>, <<rawT>>, <<rawOld>>,
      <<rawE>>,
      <<rawM, rawT>>, <<cSeedY, rawM>>, <<rawT, cSeedY>>,
      <<rawM, cSeedY, cSeedO>>, <<rawC, rawM, rawT>>, <<cSeedY, rawC, rawT>> }

\* Files of a tenant's index-set (FORMAT3 databases).
Other(t) == IF t = "t1" THEN "t2" ELSE "t1"
UKey(t, n) ==
    IF t = "t1" THEN <<"a0", "a3", "a4">>[n + 1] ELSE <<"b0", "b3", "b4">>[n + 1]
uSeedY(t) == File(<<uploaderName, "1">>, 1, <<Sec(IndexBucketName, <<UKey(t, 0)>>)>>)
uSeedO(t) == File(<<uploaderName, "2">>, 12, <<Sec(IndexBucketName, <<UKey(t, 0)>>)>>)
uRaw(t) == File(<<"ingester", "8">>, 1, <<Sec(IndexBucketName, <<UKey(t, 1)>>)>>)
\* a tenant file that holds a bucket of another tenant
uRawF(t) == File(<<"ingester", "9">>, 1,
                 <<Sec(IndexBucketName, <<UKey(t, 2)>>), Sec(Other(t), <<"x1">>)>>)

UserListings(t) ==
    { <<>>, <<uSeedY(t)>>, <<uSeedO(t)>>, <<uSeedY(t), uRaw(t)>>,
      <<uRaw(t), uRawF(t)>>, <<uSeedY(t), uRawF(t)>> }

\* --------------------------------------------------------------- state
VARIABLES
    files,          \* ListSourceFiles() of each index-set: [Merges -> Seq(File)]
    existingUsers,  \* DOMAIN of tableCompactor.existingUserIndexSet
    hasDeadline,    \* desiredDuration # 0
    expired,        \* the deadline of compactCtx has passed
    faults,         \* failed collaborator calls so far
    pc,             \* position of CompactTable
    result,         \* what CompactTable returned: "none", "ok", "err"
    mst,            \* per merge: position of compactIndexes
    mOut,           \* per merge: keys held by compactedFile
    mConsumed,      \* per merge: consumedIndexes (indexes into files[m])
    mErr,           \* per merge: a job returned an error (ForEachJob's result)
    mOpened,        \* per merge: index of the file opened as output, 0: a new file
    jobs,           \* per merge: state of the job of each source file
    pf,             \* per tenant: state of its prefetch job
    pfErr,          \* a prefetch job returned an error
    ucis,           \* tableCompactor.userCompactedIndexSet
    commonCommits,  \* successful SetCompactedIndex calls on commonIndexSet
    userCommits,    \* per tenant: successful SetCompactedIndex calls
    recheckTodo,    \* tenants left in the loop of lines 170-182
    commitTodo,     \* tenants left in the loop of lines 184-192
    writes,         \* history: every writeBatch call that succeeded
    atExpiry,       \* history: where the common merge was when the deadline passed
    readFileCalls,  \* history: per merge and file, the calls of readFile (344)
    allocs,         \* history: per tenant, the calls of userIndexSetFactoryFunc (276)
    stores,         \* history: per tenant, the assignments of its map entry
    received,       \* history: per tenant, the index-sets handed to the callers
    cleanupFailed   \* history: the files whose Close or Remove failed in readFile

inputs == <<files, existingUsers, hasDeadline>>
mergeVars == <<mst, mOut, mConsumed, mErr, mOpened, jobs>>
commitVars == <<commonCommits, userCommits>>
loopVars == <<recheckTodo, commitTodo>>
calls == <<readFileCalls, allocs, stores, received>>
history == <<writes, atExpiry, readFileCalls, allocs, stores, received, cleanupFailed>>
vars == <<files, existingUsers, hasDeadline, expired, faults, pc, result,
          mst, mOut, mConsumed, mErr, mOpened, jobs, pf, pfErr, ucis,
          commonCommits, userCommits, recheckTodo, commitTodo, writes, atExpiry,
          readFileCalls, allocs, stores, received, cleanupFailed>>

NoJob == [st |-> "todo", b |-> 0, ok |-> FALSE, nu |-> FALSE]
NoSet == [present |-> FALSE, out |-> {}, needsUpload |-> FALSE,
          origin |-> "none", touched |-> FALSE, recreated |-> FALSE, id |-> 0]

TotalFiles(fs) == Len(fs[Common]) + Len(fs["t1"]) + Len(fs["t2"])

Init ==
    /\ existingUsers \in SUBSET Tenants
    /\ files \in { fs \in [Merges -> CommonListings \cup UserListings("t1")
                                        \cup UserListings("t2")] :
                     /\ fs[Common] \in CommonListings
                     /\ \A t \in Tenants :
                          IF t \in existingUsers THEN fs[t] \in UserListings(t)
                          ELSE fs[t] = <<>>
                     /\ TotalFiles(fs) <= MaxTotalFiles }
    /\ hasDeadline \in BOOLEAN
    /\ expired = FALSE
    /\ faults = 0
    /\ pc = "start"
    /\ result = "none"
    /\ mst = [m \in Merges |-> "idle"]
    /\ mOut = [m \in Merges |-> {}]
    /\ mConsumed = [m \in Merges |-> <<>>]
    /\ mErr = [m \in Merges |-> FALSE]
    /\ mOpened = [m \in Merges |-> 0]
    /\ jobs = [m \in Merges |-> [i \in 1..Len(files[m]) |-> NoJob]]
    /\ pf = [t \in Tenants |-> IF t \in existingUsers THEN "todo" ELSE "none"]
    /\ pfErr = FALSE
    /\ ucis = [t \in Tenants |-> NoSet]
    /\ commonCommits = <<>>
    /\ userCommits = [t \in Tenants |-> <<>>]
    /\ recheckTodo = {}
    /\ commitTodo = {}
    /\ writes = {}
    /\ atExpiry = [phase |-> "never", started |-> {}, inflight |-> {}]
    /\ readFileCalls = [m \in Merges |-> [i \in 1..Len(files[m]) |-> 0]]
    /\ allocs = [t \in Tenants |-> 0]
    /\ stores = [t \in Tenants |-> 0]
    /\ received = [t \in Tenants |-> {}]
    /\ cleanupFailed = {}

\* -------------------------------------------------------------- helpers
CanFail == faults < MaxFaults

InFlight(m) == {i \in 1..Len(files[m]) : jobs[m][i].st \in {"read", "goc", "write", "append"}}
Todo(m) == {i \in 1..Len(files[m]) : jobs[m][i].st = "todo"}

\* concurrency.ForEachJob starts min(concurrency, jobs) workers
Workers(m) == Min(readDBsConcurrency, Len(files[m]))

\* ctx.Err() # nil or time.Now().After(deadline) for the context of merge m:
\* only the common merge runs under compactCtx (lines 128-133); the tenant
\* merges run under t.ctx (line 227).
DeadlineIgnored(m) == FALSE
DeadlinePassed(m) == m = Common /\ hasDeadline /\ expired

\* the errgroup's context is cancelled by the first job error
Cancelled(m) == mErr[m]

SetJob(m, i, j) == [jobs EXCEPT ![m][i] = j]
BatchAt(m, i) == Batches(files[m][i])[jobs[m][i].b]

\* the job moves to the next callback of readFile, or past readFile
Advance(m, i) ==
    IF jobs[m][i].b < Len(Batches(files[m][i]))
    THEN [st |-> "read", b |-> jobs[m][i].b + 1, ok |-> FALSE, nu |-> FALSE]
    ELSE [st |-> "append", b |-> 0, ok |-> FALSE, nu |-> FALSE]

\* the job returns an error: ForEachJob keeps it and cancels its context
FailJobButConsumed(m, i) ==
    /\ jobs' = SetJob(m, i, [st |-> "append", b |-> 0, ok |-> FALSE, nu |-> FALSE])
    /\ mErr' = [mErr EXCEPT ![m] = TRUE]
FailJob(m, i) ==
    /\ jobs' = SetJob(m, i, [st |-> "failed", b |-> jobs[m][i].b, ok |-> FALSE,
                              nu |-> FALSE])
    /\ mErr' = [mErr EXCEPT ![m] = TRUE]

\* readFile's result: the error of db.View, i.e. of the callback; the errors
\* of db.Close and os.Remove in the deferred function (423-431) are logged
ReadFileReturnsCleanupErr(cbErr, cleanupErr) == cbErr \/ cleanupErr
ReadFileReturns(cbErr, cleanupErr) == cbErr

\* a callback of readFile returned nil: the next one is called, or, after the
\* last one, the file is closed and removed and readFile returns
AfterCallback(m, i) ==
    IF jobs[m][i].b < Len(Batches(files[m][i]))
    THEN /\ jobs' = SetJob(m, i, Advance(m, i))
         /\ UNCHANGED <<faults, mErr, cleanupFailed>>
    ELSE \E cleanupErr \in BOOLEAN :
            /\ cleanupErr => CanFail
            /\ faults' = IF cleanupErr THEN faults + 1 ELSE faults
            /\ cleanupFailed' =
                  IF cleanupErr THEN cleanupFailed \cup {<<m, i>>} ELSE cleanupFailed
            /\ IF ReadFileReturns(FALSE, cleanupErr)
               THEN FailJob(m, i)
               ELSE /\ jobs' = SetJob(m, i, Advance(m, i))
                    /\ UNCHANGED mErr

\* --------------------------------------------------- compactIndexes (298)
\* lines 300-323: list, pick the seed, open the output database.
CompactIndexesOpen(m) ==
    /\ mst[m] = "called"
    /\ \/ /\ mst' = [mst EXCEPT ![m] = "running"]
          /\ mConsumed' = [mConsumed EXCEPT ![m] =
                IF compactedFileIdx(files[m]) # 0
                THEN <<compactedFileIdx(files[m])>> ELSE <<>>]
          /\ mOut' = [mOut EXCEPT ![m] =
                IF compactedFileIdx(files[m]) # 0
                THEN KeysOf(files[m][compactedFileIdx(files[m])], IndexBucketName)
                ELSE {}]
          /\ mOpened' = [mOpened EXCEPT ![m] = compactedFileIdx(files[m])]
          /\ UNCHANGED faults
       \/ \* GetSourceFile of the seed or openBoltdbFileWithNoSync fails
          /\ CanFail
          /\ faults' = faults + 1
          /\ mst' = [mst EXCEPT ![m] = "openfailed"]
          /\ UNCHANGED <<mConsumed, mOut, mOpened>>
    /\ UNCHANGED <<inputs, expired, pc, result, mErr, jobs, pf, pfErr, ucis,
                   commitVars, loopVars, history>>

\* lines 326-343: a worker of ForEachJob takes the next index and starts the
\* job: deadline check, seed skip, GetSourceFile.
StartJobGuard(m, i) ==
    /\ mst[m] = "running"
    /\ i \in Todo(m)
    /\ \A j \in 1..(i - 1) : j \notin Todo(m)
    /\ Cardinality(InFlight(m)) < Workers(m)
    /\ ~Cancelled(m)
    /\ ~DeadlinePassed(m)

\* line 336: the job of the seed file returns at once
IsSeedNever(m, i) == FALSE
IsSeed(m, i) == i = compactedFileIdx(files[m])

StartJob(m, i) ==
    /\ StartJobGuard(m, i)
    /\ IF IsSeed(m, i)
       THEN /\ jobs' = SetJob(m, i, [st |-> "seed", b |-> 0, ok |-> FALSE, nu |-> FALSE])
            /\ UNCHANGED <<faults, mErr, readFileCalls>>
       ELSE \/ /\ jobs' = SetJob(m, i, [st |-> "read", b |-> 1, ok |-> FALSE, nu |-> FALSE])
               /\ readFileCalls' = [readFileCalls EXCEPT ![m][i] = @ + 1]
               /\ UNCHANGED <<faults, mErr>>
            \/ \* GetSourceFile fails
               /\ CanFail
               /\ faults' = faults + 1
               /\ FailJob(m, i)
               /\ UNCHANGED readFileCalls
    /\ UNCHANGED <<inputs, expired, pc, result, mst, mOut, mConsumed, mOpened, pf, pfErr,
                   ucis, commitVars, loopVars, writes, atExpiry, allocs, stores,
                   received, cleanupFailed>>

\* lines 345-353: the database a batch of bucket sec is written to, named by
\* its owner: the merge's own compactedFile, or the CompactedIndex of tenant sec
RouteAllToCompactedFile(m, sec) == m
Route(m, sec) == IF sec # IndexBucketName THEN sec ELSE m

\* writeBatch (line 355) succeeds on the database owned by dest
WriteBatchTo(m, i, dest) ==
    /\ IF dest = m
       THEN /\ mOut' = [mOut EXCEPT ![m] = @ \cup Range(BatchAt(m, i).keys)]
            /\ UNCHANGED ucis
       ELSE /\ ucis' = [ucis EXCEPT ![dest].out = @ \cup Range(BatchAt(m, i).keys),
                                    ![dest].touched = TRUE]
            /\ UNCHANGED mOut
    /\ writes' = writes \cup
          {[m |-> m, i |-> i, b |-> jobs[m][i].b, sec |-> BatchAt(m, i).sec,
            dest |-> dest, keys |-> Range(BatchAt(m, i).keys)]}

\* lines 344-356, a batch of the common bucket: written to compactedFile.
WriteCommonBatch(m, i) ==
    /\ mst[m] = "running"
    /\ jobs[m][i].st = "read"
    /\ BatchAt(m, i).sec = IndexBucketName
    /\ \/ /\ WriteBatchTo(m, i, Route(m, BatchAt(m, i).sec))
          /\ AfterCallback(m, i)
       \/ /\ CanFail
          /\ faults' = faults + 1
          /\ FailJob(m, i)
          /\ UNCHANGED <<mOut, ucis, writes, cleanupFailed>>
    /\ UNCHANGED <<inputs, expired, pc, result, mst, mConsumed, mOpened, pf, pfErr,
                   commitVars, loopVars, atExpiry, calls>>

\* the factory handed to compactIndexes: the closure of lines 134-141 for the
\* common merge, the closure of lines 227-229 (always an error) otherwise.
FactoryAlwaysFails(m) == m # Common

\* the index-set u of tenant t (if there is one) is handed to a caller of
\* getOrCreateUserCompactedIndexSet: lines 252 and 262, 270, 295
Receive(t, u) == IF u.present THEN [received EXCEPT ![t] = @ \cup {u.id}] ELSE received

\* an assignment of t.userCompactedIndexSet[t]: lines 213, 286, 292
Store(t) == [stores EXCEPT ![t] = @ + 1]

\* lines 346-353 for a batch of another bucket: getCompactedUserIndex is
\* called; in the common merge this runs lines 251-263 of
\* getOrCreateUserCompactedIndexSet (the read under RLock).
RouteUserBatch(m, i) ==
    /\ mst[m] = "running"
    /\ jobs[m][i].st = "read"
    /\ BatchAt(m, i).sec # IndexBucketName
    /\ IF FactoryAlwaysFails(m)
       THEN /\ FailJob(m, i)
            /\ UNCHANGED received
       ELSE /\ jobs' = SetJob(m, i,
                 LET u == ucis[BatchAt(m, i).sec]
                 IN  IF u.present /\ u.needsUpload
                     THEN [st |-> "write", b |-> jobs[m][i].b, ok |-> TRUE, nu |-> TRUE]
                     ELSE [st |-> "goc", b |-> jobs[m][i].b, ok |-> u.present,
                           nu |-> FALSE])
            /\ received' = Receive(BatchAt(m, i).sec, ucis[BatchAt(m, i).sec])
            /\ UNCHANGED mErr
    /\ UNCHANGED <<inputs, expired, faults, pc, result, mst, mOut, mConsumed, mOpened, pf,
                   pfErr, ucis, commitVars, loopVars, writes, atExpiry, readFileCalls,
                   allocs, stores, cleanupFailed>>

\* fetchUserCompactedIndexSet for a tenant with one source file (234-244)
OpenedUserSet(t) ==
    [present |-> TRUE, out |-> KeysOf(files[t][1], IndexBucketName),
     needsUpload |-> FALSE, origin |-> "file", touched |-> FALSE,
     recreated |-> FALSE, id |-> stores[t] + 1]

\* fetchUserCompactedIndexSet after a merge of the tenant's files (233)
MergedUserSet(t) ==
    [present |-> TRUE, out |-> mOut[t], needsUpload |-> TRUE,
     origin |-> "merge", touched |-> FALSE, recreated |-> FALSE, id |-> stores[t] + 1]

\* lines 276-286: a new index-set and an empty output for a new tenant
FreshUserSet(t) ==
    [present |-> TRUE, out |-> {}, needsUpload |-> TRUE, origin |-> "fresh",
     touched |-> FALSE, recreated |-> FALSE, id |-> stores[t] + 1]

\* lines 268-271: the second look at the map, under the exclusive lock
RecheckSkipped(t) == FALSE
RecheckUnderLock(t) == ucis[t].present

\* lines 255-262: the set was found under RLock with needsUpload false
MarkNothing(u) == u
MarkNeedsUpload(u) == [u EXCEPT !.needsUpload = TRUE]

\* getOrCreateUserCompactedIndexSet under the exclusive lock: lines 257-259
\* when the set was found under RLock, lines 265-295 when it was not.
GetOrCreateLocked(m, i) ==
    /\ mst[m] = "running"
    /\ jobs[m][i].st = "goc"
    /\ LET t == BatchAt(m, i).sec
           go == [jobs[m][i] EXCEPT !.st = "write"]
       IN  IF jobs[m][i].ok
           THEN /\ ucis' = [ucis EXCEPT ![t] = MarkNeedsUpload(@)]
                /\ jobs' = SetJob(m, i, go)
                /\ UNCHANGED <<faults, mErr, allocs, stores, received>>
           ELSE IF RecheckUnderLock(t)
           THEN /\ jobs' = SetJob(m, i, go)
                /\ received' = Receive(t, ucis[t])
                /\ UNCHANGED <<faults, mErr, ucis, allocs, stores>>
           ELSE IF t \notin existingUsers
           THEN \/ /\ ucis' = [ucis EXCEPT ![t] = FreshUserSet(t)]
                   /\ jobs' = SetJob(m, i, go)
                   /\ allocs' = [allocs EXCEPT ![t] = @ + 1]
                   /\ stores' = Store(t)
                   /\ received' = Receive(t, FreshUserSet(t))
                   /\ UNCHANGED <<faults, mErr>>
                \/ \* userIndexSetFactoryFunc or the open fails
                   /\ CanFail
                   /\ faults' = faults + 1
                   /\ FailJob(m, i)
                   /\ allocs' = [allocs EXCEPT ![t] = @ + 1]
                   /\ UNCHANGED <<ucis, stores, received>>
           ELSE \* lines 288-292: an existing tenant that prefetch did not
                \* store; with several files this would run a merge under
                \* the lock, which is not modelled (see LazyFetchNeverNeeded)
                /\ Len(files[t]) <= 1
                /\ IF Len(files[t]) = 1
                   THEN /\ ucis' = [ucis EXCEPT ![t] = OpenedUserSet(t)]
                        /\ jobs' = SetJob(m, i, go)
                        /\ stores' = Store(t)
                        /\ received' = Receive(t, OpenedUserSet(t))
                        /\ UNCHANGED <<faults, mErr, allocs>>
                   ELSE /\ FailJob(m, i)
                        /\ UNCHANGED <<faults, ucis, allocs, stores, received>>
    /\ UNCHANGED <<inputs, expired, pc, result, mst, mOut, mConsumed, mOpened, pf, pfErr,
                   commitVars, loopVars, writes, atExpiry, readFileCalls,
                   cleanupFailed>>

\* line 355 for a batch of a tenant bucket: written to the tenant's output
WriteUserBatch(m, i) ==
    /\ mst[m] = "running"
    /\ jobs[m][i].st = "write"
    /\ \/ /\ WriteBatchTo(m, i, Route(m, BatchAt(m, i).sec))
          /\ AfterCallback(m, i)
       \/ /\ CanFail
          /\ faults' = faults + 1
          /\ FailJob(m, i)
          /\ UNCHANGED <<ucis, mOut, writes, cleanupFailed>>
    /\ UNCHANGED <<inputs, expired, pc, result, mst, mConsumed, mOpened, pf, pfErr,
                   commitVars, loopVars, atExpiry, calls>>

\* lines 361-369: the file was read without error
AppendConsumed(m, i) ==
    /\ mst[m] = "running"
    /\ jobs[m][i].st = "append"
    /\ mConsumed' = [mConsumed EXCEPT ![m] = Append(@, i)]
    /\ jobs' = SetJob(m, i, [st |-> "done", b |-> 0, ok |-> FALSE, nu |-> FALSE])
    /\ UNCHANGED <<inputs, expired, faults, pc, result, mst, mOut, mErr, mOpened, pf, pfErr,
                   ucis, commitVars, loopVars, history>>

\* line 372: the error of ForEachJob is returned only if nothing was consumed
CheckpointFailsOnAnyError(m) == mErr[m]
CheckpointFails(m) == mErr[m] /\ Len(mConsumed[m]) = 0

\* ForEachJob returns (every worker has left its loop); lines 371-379
MergeReturn(m) ==
    /\ mst[m] = "running"
    /\ InFlight(m) = {}
    /\ Todo(m) = {} \/ Cancelled(m) \/ DeadlinePassed(m)
    /\ mst' = [mst EXCEPT ![m] = IF CheckpointFails(m) THEN "failed" ELSE "returned"]
    /\ UNCHANGED <<inputs, expired, faults, pc, result, mOut, mConsumed, mErr, mOpened, jobs,
                   pf, pfErr, ucis, commitVars, loopVars, history>>

\* the deadline of context.WithTimeout (line 130) passes
DeadlineExpires ==
    /\ hasDeadline
    /\ ~expired
    /\ pc = "merging"
    /\ mst[Common] \in {"called", "running"}
    /\ expired' = TRUE
    /\ atExpiry' = [phase |-> mst[Common],
                     started |-> (1..Len(files[Common])) \ Todo(Common),
                     inflight |-> InFlight(Common)]
    /\ UNCHANGED <<inputs, faults, pc, result, mergeVars, pf, pfErr, ucis,
                   commitVars, loopVars, writes, calls, cleanupFailed>>

\* ------------------------------------------- prefetchUserIndexFiles (197)
PfInFlight == {t \in Tenants : pf[t] = "merging"}
PfTodo == {t \in Tenants : pf[t] = "todo"}

\* CompactTable lines 117-119 and prefetchUserIndexFiles lines 198-203
CompactTableStart ==
    /\ pc = "start"
    /\ pc' = "prefetch"
    /\ UNCHANGED <<inputs, expired, faults, result, mergeVars, pf, pfErr, ucis,
                   commitVars, loopVars, history>>

\* a worker of the prefetch pool takes a tenant (the slice is built from a
\* map, so in any order) and runs fetchUserCompactedIndexSet up to its
\* first blocking point: lines 204-214 and 219-246.
PrefetchUser(t) ==
    /\ pc = "prefetch"
    /\ pf[t] = "todo"
    /\ ~pfErr
    /\ Cardinality(PfInFlight) < Min(readDBsConcurrency, Cardinality(existingUsers))
    /\ IF Len(files[t]) > 1
       THEN /\ pf' = [pf EXCEPT ![t] = "merging"]
            /\ mst' = [mst EXCEPT ![t] = "called"]
            /\ UNCHANGED <<faults, pfErr, ucis, stores>>
       ELSE IF Len(files[t]) = 1
       THEN \/ /\ ucis' = [ucis EXCEPT ![t] = OpenedUserSet(t)]
               /\ stores' = Store(t)
               /\ pf' = [pf EXCEPT ![t] = "done"]
               /\ UNCHANGED <<faults, pfErr, mst>>
            \/ \* GetSourceFile or openBoltdbFileWithNoSync fails
               /\ CanFail
               /\ faults' = faults + 1
               /\ pf' = [pf EXCEPT ![t] = "failed"]
               /\ pfErr' = TRUE
               /\ UNCHANGED <<ucis, mst, stores>>
       ELSE \* "attempted to fetch empty index set"
            /\ pf' = [pf EXCEPT ![t] = "failed"]
            /\ pfErr' = TRUE
            /\ UNCHANGED <<faults, ucis, mst, stores>>
    /\ UNCHANGED <<inputs, expired, pc, result, mOut, mConsumed, mErr, mOpened, jobs,
                   commitVars, loopVars, writes, atExpiry, readFileCalls, allocs,
                   received, cleanupFailed>>

\* lines 230-233 and 206-214: the tenant's merge has returned
PrefetchMerged(t) ==
    /\ pc = "prefetch"
    /\ pf[t] = "merging"
    /\ mst[t] \in {"returned", "failed", "openfailed"}
    /\ IF mst[t] = "returned"
       THEN /\ ucis' = [ucis EXCEPT ![t] = MergedUserSet(t)]
            /\ stores' = Store(t)
            /\ pf' = [pf EXCEPT ![t] = "done"]
            /\ UNCHANGED pfErr
       ELSE /\ pf' = [pf EXCEPT ![t] = "failed"]
            /\ pfErr' = TRUE
            /\ UNCHANGED <<ucis, stores>>
    /\ UNCHANGED <<inputs, expired, faults, pc, result, mergeVars, commitVars,
                   loopVars, writes, atExpiry, readFileCalls, allocs, received,
                   cleanupFailed>>

\* ForEachJob of line 203 returns; CompactTable lines 119-122
PrefetchReturn ==
    /\ pc = "prefetch"
    /\ PfInFlight = {}
    /\ PfTodo = {} \/ pfErr
    /\ IF pfErr
       THEN /\ pc' = "done"
            /\ result' = "err"
       ELSE /\ pc' = "decide"
            /\ UNCHANGED result
    /\ UNCHANGED <<inputs, expired, faults, mergeVars, pf, pfErr, ucis, commitVars,
                   loopVars, history>>

\* ------------------------------------------------------ CompactTable (116)
Present == {t \in Tenants : ucis[t].present}

\* lines 126-134: the decision, the deadline, the call of compactIndexes
Decide ==
    /\ pc = "decide"
    /\ IF NeedsCompaction(files[Common])
       THEN /\ pc' = "merging"
            /\ mst' = [mst EXCEPT ![Common] = "called"]
            /\ UNCHANGED recheckTodo
       ELSE /\ pc' = "recheck"
            /\ recheckTodo' = Present
            /\ UNCHANGED mst
    /\ UNCHANGED <<inputs, expired, faults, result, mOut, mConsumed, mErr, mOpened, jobs, pf,
                   pfErr, ucis, commitVars, commitTodo, history>>

\* lines 142-144
CommonMergeFailed ==
    /\ pc = "merging"
    /\ mst[Common] \in {"failed", "openfailed"}
    /\ pc' = "done"
    /\ result' = "err"
    /\ UNCHANGED <<inputs, expired, faults, mergeVars, pf, pfErr, ucis, commitVars,
                   loopVars, history>>

\* CompactedIndex.isEmpty: the output database holds no entry
isEmpty(out) == out = {}

\* the arguments of the SetCompactedIndex call of line 165
CommonCommitKeepingEmpty(recreated) ==
    [compacted |-> "db", out |-> mOut[Common],
     consumed |-> Range(mConsumed[Common]), final |-> TRUE,
     recreated |-> recreated, cleaned |-> FALSE]
CommonCommit(recreated) ==
    IF isEmpty(mOut[Common])
    THEN [compacted |-> "nil", out |-> {}, consumed |-> Range(mConsumed[Common]),
          final |-> TRUE, recreated |-> FALSE, cleaned |-> TRUE]
    ELSE [compacted |-> "db", out |-> mOut[Common],
          consumed |-> Range(mConsumed[Common]), final |-> TRUE,
          recreated |-> recreated, cleaned |-> FALSE]

\* lines 146-168: isEmpty, Cleanup or recreateCompactedDB, SetCompactedIndex
PostMerge ==
    /\ pc = "merging"
    /\ mst[Common] = "returned"
    /\ \/ /\ commonCommits' = Append(commonCommits,
                CommonCommit(mustRecreateCompactedDB(files[Common])))
          /\ pc' = "recheck"
          /\ recheckTodo' = Present
          /\ UNCHANGED <<faults, result>>
       \/ \* isEmpty, recreateCompactedDB or SetCompactedIndex fails
          /\ CanFail
          /\ faults' = faults + 1
          /\ pc' = "done"
          /\ result' = "err"
          /\ UNCHANGED <<commonCommits, recheckTodo>>
    /\ UNCHANGED <<inputs, expired, mergeVars, pf, pfErr, ucis, userCommits,
                   commitTodo, history>>

\* lines 170-182, one iteration
RecheckUser(t) ==
    /\ pc = "recheck"
    /\ t \in recheckTodo
    /\ IF mustRecreateCompactedDB(files[t])
       THEN \/ /\ ucis' = [ucis EXCEPT ![t].needsUpload = TRUE, ![t].recreated = TRUE]
               /\ recheckTodo' = recheckTodo \ {t}
               /\ UNCHANGED <<faults, pc, result>>
            \/ \* recreateCompactedDB fails
               /\ CanFail
               /\ faults' = faults + 1
               /\ pc' = "done"
               /\ result' = "err"
               /\ UNCHANGED <<ucis, recheckTodo>>
       ELSE /\ recheckTodo' = recheckTodo \ {t}
            /\ UNCHANGED <<faults, pc, result, ucis>>
    /\ UNCHANGED <<inputs, expired, mergeVars, pf, pfErr, commitVars, commitTodo,
                   history>>

\* the index-sets the loop of lines 184-192 ranges over
CommitOnlyNeedingUpload == {t \in Present : ucis[t].needsUpload}
CommitRange == Present

\* the loop of lines 170-182 is over
RecheckDone ==
    /\ pc = "recheck"
    /\ recheckTodo = {}
    /\ pc' = "commit"
    /\ commitTodo' = CommitRange
    /\ UNCHANGED <<inputs, expired, faults, result, mergeVars, pf, pfErr, ucis,
                   commitVars, recheckTodo, history>>

\* the arguments of the SetCompactedIndex call of line 189
UserCommit(t) ==
    [out |-> ucis[t].out, consumed |-> "nil", upload |-> ucis[t].needsUpload,
     recreated |-> ucis[t].recreated]

\* lines 184-192, one iteration
CommitUser(t) ==
    /\ pc = "commit"
    /\ t \in commitTodo
    /\ \/ /\ userCommits' = [userCommits EXCEPT ![t] = Append(@, UserCommit(t))]
          /\ commitTodo' = commitTodo \ {t}
          /\ UNCHANGED <<faults, pc, result>>
       \/ \* SetCompactedIndex fails
          /\ CanFail
          /\ faults' = faults + 1
          /\ pc' = "done"
          /\ result' = "err"
          /\ UNCHANGED <<userCommits, commitTodo>>
    /\ UNCHANGED <<inputs, expired, mergeVars, pf, pfErr, ucis, commonCommits,
                   recheckTodo, history>>

\* line 194
CompactTableReturn ==
    /\ pc = "commit"
    /\ commitTodo = {}
    /\ pc' = "done"
    /\ result' = "ok"
    /\ UNCHANGED <<inputs, expired, faults, mergeVars, pf, pfErr, ucis, commitVars,
                   loopVars, history>>

Next ==
    \/ CompactTableStart
    \/ \E t \in Tenants : PrefetchUser(t)
    \/ \E t \in Tenants : PrefetchMerged(t)
    \/ PrefetchReturn
    \/ Decide
    \/ \E m \in Merges : CompactIndexesOpen(m)
    \/ \E m \in Merges : \E i \in 1..Len(files[m]) : StartJob(m, i)
    \/ \E m \in Merges : \E i \in 1..Len(files[m]) : WriteCommonBatch(m, i)
    \/ \E m \in Merges : \E i \in 1..Len(files[m]) : RouteUserBatch(m, i)
    \/ \E m \in Merges : \E i \in 1..Len(files[m]) : GetOrCreateLocked(m, i)
    \/ \E m \in Merges : \E i \in 1..Len(files[m]) : WriteUserBatch(m, i)
    \/ \E m \in Merges : \E i \in 1..Len(files[m]) : AppendConsumed(m, i)
    \/ \E m \in Merges : MergeReturn(m)
    \/ DeadlineExpires
    \/ CommonMergeFailed
    \/ PostMerge
    \/ \E t \in Tenants : RecheckUser(t)
    \/ RecheckDone
    \/ \E t \in Tenants : CommitUser(t)
    \/ CompactTableReturn

Spec == Init /\ [][Next]_vars

\* Prefetch stores every tenant of existingUserIndexSet before the common
\* merge starts, so getOrCreateUserCompactedIndexSet never reaches lines 288-292.
LazyFetchNeverNeeded ==
    \A m \in Merges : \A i \in 1..Len(files[m]) :
        (jobs[m][i].st = "goc" /\ BatchAt(m, i).sec \in existingUsers)
            => ucis[BatchAt(m, i).sec].present

TypeOK ==
    /\ existingUsers \subseteq Tenants
    /\ hasDeadline \in BOOLEAN /\ expired \in BOOLEAN /\ pfErr \in BOOLEAN
    /\ faults \in 0..MaxFaults
    /\ pc \in {"start", "prefetch", "decide", "merging", "recheck", "commit", "done"}
    /\ result \in {"none", "ok", "err"}
    /\ (result # "none") <=> (pc = "done")
    /\ \A m \in Merges :
          /\ mst[m] \in {"idle", "called", "running", "returned", "failed", "openfailed"}
          /\ mOpened[m] \in 0..Len(files[m])
          /\ Range(mConsumed[m]) \subseteq 1..Len(files[m])
          /\ \A i \in 1..Len(files[m]) :
                jobs[m][i].st \in {"todo", "seed", "read", "goc", "write", "append",
                                   "done", "failed"}
    /\ \A t \in Tenants :
          pf[t] \in {"none", "todo", "merging", "done", "failed"}
    /\ recheckTodo \subseteq Tenants /\ commitTodo \subseteq Tenants

\* ---------------------------------------------------------------- claims
\* the keys the files of a listing hold in bucket sec
SectionKeys(fs, sec) == UNION {KeysOf(fs[i], sec) : i \in 1..Len(fs)}

\* the keys the database of tenant t holds: the output of its merge while the
\* merge runs, its CompactedIndex once it is in userCompactedIndexSet
UserOut(t) == IF ucis[t].present THEN ucis[t].out ELSE mOut[t]

\* C1: every batch written during CompactTable goes to the right database: a
\* batch of the common bucket to the output of the merge that read it, a batch
\* of bucket T to the CompactedIndex of tenant T; no key of a bucket T of a
\* common file is ever in the common output or in the output of another tenant.
C1_Partitioning ==
    /\ \A w \in writes :
          IF w.sec = IndexBucketName THEN w.dest = w.m ELSE w.dest = w.sec
    /\ \A t \in Tenants :
          /\ mOut[Common] \cap SectionKeys(files[Common], t) = {}
          /\ UserOut(Other(t)) \cap SectionKeys(files[Common], t) = {}

\* C1 witness: a finished run in which the common merge wrote a batch of the
\* common bucket and batches of both tenants, and a tenant merge wrote one.
C1_Witness ==
    /\ result = "ok"
    /\ \E w \in writes : w.m = Common /\ w.sec = IndexBucketName /\ w.keys # {}
    /\ \A t \in Tenants : \E w \in writes : w.m = Common /\ w.sec = t /\ w.keys # {}
    /\ \E w \in writes : w.m \in Tenants

\* every key of every bucket of a file
AllKeysOf(f) == UNION {Range(f.secs[j].keys) : j \in 1..Len(f.secs)}
KeysOfListing(fs) == UNION {AllKeysOf(fs[i]) : i \in 1..Len(fs)}
AllSourceKeys == UNION {KeysOfListing(files[m]) : m \in Merges}

Last(q) == q[Len(q)]
CommittedCommonOut == IF commonCommits = <<>> THEN {} ELSE Last(commonCommits).out
CommittedUserOut(t) == IF userCommits[t] = <<>> THEN {} ELSE Last(userCommits[t]).out
CommittedUserOuts == UNION {CommittedUserOut(t) : t \in Tenants}

\* no call failed and no job returned an error
NoIngestionError == faults = 0 /\ ~pfErr /\ \A m \in Merges : ~mErr[m]

\* what the common index-set holds after the run: the committed output, or,
\* when the common merge was skipped, its source files, which stay in place
CommonAfterRun ==
    IF commonCommits = <<>>
    THEN KeysOfListing(files[Common])
    ELSE Last(commonCommits).out

\* C2 as stated: after a successful run with no ingestion error and no expired
\* deadline, the committed common output and the committed tenant outputs
\* together hold exactly the keys of all source files.
C2_Original ==
    (result = "ok" /\ NoIngestionError /\ ~expired)
        => CommittedCommonOut \cup CommittedUserOuts = AllSourceKeys

\* C2 amended: the same, where a common index-set whose merge was skipped
\* (line 126 false) counts with the source file it keeps.
C2_Completeness ==
    (result = "ok" /\ NoIngestionError /\ ~expired)
        => CommonAfterRun \cup CommittedUserOuts = AllSourceKeys

\* C2 witness: a successful run without error or deadline that committed a
\* non-empty common output and a tenant output fed by the common merge.
C2_Witness ==
    /\ result = "ok" /\ NoIngestionError /\ ~expired
    /\ CommittedCommonOut # {}
    /\ \E w \in writes : w.m = Common /\ w.sec \in Tenants /\ w.keys # {}
          /\ w.keys \subseteq CommittedUserOut(w.sec)
    /\ \E t \in Tenants : mst[t] = "returned"

\* C3 as stated: when CompactTable returns an error, no SetCompactedIndex call
\* of the run has succeeded, on the common index-set or on a tenant's.
C3_NothingCommittedOnError ==
    result = "err" => (commonCommits = <<>> /\ \A t \in Tenants : userCommits[t] = <<>>)

\* compactIndexes has returned
Returned(m) == mst[m] \in {"returned", "failed", "openfailed"}
\* the jobs that failed inside readFile (in the callback of batch b)
MidFileFailures(m) == {i \in 1..Len(files[m]) : jobs[m][i].st = "failed" /\ jobs[m][i].b >= 1}
DoneJobs(m) == {i \in 1..Len(files[m]) : jobs[m][i].st = "done"}
\* the error compactIndexes returns is non-nil (lines 316, 322, 373; 379 is nil)
ReturnedError(m) == mst[m] \in {"failed", "openfailed"}
\* the keys of file i of merge m are in the databases its batches go to
Ingested(m, i) ==
    /\ KeysOf(files[m][i], IndexBucketName) \subseteq mOut[m]
    /\ \A t \in Tenants : KeysOf(files[m][i], t) \subseteq UserOut(t)

\* C4 as stated: a merge of several files in which one file failed mid-file
\* returns the output, a consumed list with every other file and without the
\* failed one, and a non-nil error.
C4_Original ==
    \A m \in Merges :
        (Returned(m) /\ Len(files[m]) > 1 /\ Cardinality(MidFileFailures(m)) = 1)
            => /\ mst[m] = "returned"
               /\ Range(mConsumed[m]) = (1..Len(files[m])) \ MidFileFailures(m)
               /\ ReturnedError(m)

\* C4 amended: such a merge returns the error and no output when nothing was
\* consumed; otherwise it returns a nil error, the output with the keys of every
\* consumed file, and a consumed list made of the seed and of the files read to
\* the end, never a failed one; a file that is not consumed and did not fail
\* was never started (the failure cancelled the pool).
C4_Checkpoint ==
    \A m \in Merges :
        (Returned(m) /\ MidFileFailures(m) # {})
            => /\ mst[m] = "failed" <=> mConsumed[m] = <<>>
               /\ mst[m] = "returned" <=> mConsumed[m] # <<>>
               /\ Range(mConsumed[m]) \cap MidFileFailures(m) = {}
               /\ Range(mConsumed[m]) = DoneJobs(m) \cup ({mOpened[m]} \ {0})
               /\ \A i \in DoneJobs(m) : Ingested(m, i)
               /\ \A i \in 1..Len(files[m]) :
                     i \notin Range(mConsumed[m])
                        => jobs[m][i].st \in {"failed", "todo"}

\* C4 witness: the common merge of three files has returned after one file
\* failed past its first batch and the two others were consumed.
C4_Witness ==
    /\ mst[Common] = "returned"
    /\ Len(files[Common]) = 3
    /\ \E i \in MidFileFailures(Common) : jobs[Common][i].b >= 2
    /\ Cardinality(DoneJobs(Common)) = 2

\* C5 as stated: a merge in which a job failed returns an output only if some
\* source file was read to the end without error in that run.
C5_FailsWithoutConsumedFile ==
    \A m \in Merges : (mst[m] = "returned" /\ mErr[m]) => DoneJobs(m) # {}

NotTodo(m) == (1..Len(files[m])) \ Todo(m)
CommonWrites == {w \in writes : w.m = Common}

C6_WitnessInFlight ==
    /\ mst[Common] = "returned"
    /\ \E i \in atExpiry.inflight : i \in Range(mConsumed[Common])
    /\ Todo(Common) # {}

\* a job of tenant merge t failed in the callback of a batch of another bucket
MetForeignSection(t) ==
    \E i \in MidFileFailures(t) :
        Batches(files[t][i])[jobs[t][i].b].sec # IndexBucketName

\* C7 as stated: a tenant merge that meets a bucket other than the common one
\* makes fetchUserCompactedIndexSet and CompactTable fail, and writes no batch
\* of that bucket.
C7_ForeignSectionFails ==
    \A t \in Tenants :
        MetForeignSection(t)
            => /\ pf[t] # "done"
               /\ result # "ok"
               /\ \A w \in writes : w.m = t => w.sec = IndexBucketName

\* C8 as stated: when SetCompactedIndex has succeeded on the common index-set,
\* every tenant that got keys from the consumed common files is committed.
C8_TenantsCommittedFirst ==
    commonCommits # <<>>
        => \A w \in CommonWrites :
              (w.sec \in Tenants /\ w.keys # {} /\ w.i \in Last(commonCommits).consumed)
                 => /\ userCommits[w.sec] # <<>>
                    /\ w.keys \subseteq CommittedUserOut(w.sec)

\* the output database of merge m has been opened
Opened(m) == mst[m] \in {"running", "returned", "failed"}
HasTagged(fs) == \E i \in 1..Len(fs) : HasPrefix(fs[i].name, uploaderName)

\* C9: when the listing of a merge holds a producer-tagged file, that file is
\* the database opened as output and no new one is opened; its job never reads
\* it, no batch of it is written, it is reported as consumed and its keys are
\* in the output; every other file (tagged or not) that is read goes through
\* the usual routing into that output, and all of them are consumed when the
\* merge ends without error or deadline.
C9_SeedReuse ==
    \A m \in Merges :
        (Opened(m) /\ HasTagged(files[m]))
            => /\ mOpened[m] # 0
               /\ HasPrefix(files[m][mOpened[m]].name, uploaderName)
               /\ jobs[m][mOpened[m]].st \in {"todo", "seed"}
               /\ \A w \in writes : w.m = m => w.i # mOpened[m]
               /\ mOpened[m] \in Range(mConsumed[m])
               /\ KeysOf(files[m][mOpened[m]], IndexBucketName) \subseteq mOut[m]
               /\ (mst[m] = "returned" /\ ~mErr[m] /\ ~DeadlinePassed(m))
                     => \A i \in (1..Len(files[m])) \ {mOpened[m]} :
                           /\ jobs[m][i].st = "done"
                           /\ i \in Range(mConsumed[m])
                           /\ Ingested(m, i)

\* C9 witness: a merge of a seed, a raw file and a second producer-tagged file
\* has returned with all three consumed.
C9_Witness ==
    /\ mst[Common] = "returned"
    /\ mOpened[Common] = 2
    /\ Range(mConsumed[Common]) = {1, 2, 3}
    /\ HasPrefix(files[Common][3].name, uploaderName)
    /\ jobs[Common][2].st = "seed"

\* every index-set of the table holds one producer-tagged file younger than
\* the recreation threshold: what a successful run leaves behind
AlreadyCompacted ==
    /\ Len(files[Common]) = 1
    /\ HasPrefix(files[Common][1].name, uploaderName)
    /\ files[Common][1].age < recreateCompactedDBOlderThan
    /\ \A t \in existingUsers :
          /\ Len(files[t]) = 1
          /\ HasPrefix(files[t][1].name, uploaderName)
          /\ files[t][1].age < recreateCompactedDBOlderThan

\* C10: a run over a table that is already compacted starts no merge, reads no
\* file, writes no batch, does not call SetCompactedIndex on the common
\* index-set, commits every tenant once with needsUpload false and with the
\* keys of its one file, and fails only if a collaborator call fails.
C10_Idempotence ==
    AlreadyCompacted
        => /\ \A m \in Merges : mst[m] = "idle" /\ NotTodo(m) = {}
           /\ writes = {}
           /\ commonCommits = <<>>
           /\ \A t \in Tenants :
                 /\ Len(userCommits[t]) <= 1
                 /\ \A k \in 1..Len(userCommits[t]) :
                       /\ t \in existingUsers
                       /\ ~userCommits[t][k].upload
                       /\ ~userCommits[t][k].recreated
                       /\ userCommits[t][k].out = KeysOfListing(files[t])
           /\ result = "ok" => \A t \in existingUsers : Len(userCommits[t]) = 1
           /\ result = "err" => faults > 0

\* C10 witness: such a run over a table with two tenants has returned success.
C10_Witness ==
    /\ AlreadyCompacted
    /\ existingUsers = Tenants
    /\ result = "ok"
    /\ \A t \in Tenants : Len(userCommits[t]) = 1

\* the recreation policy as the claim words it, and with the boundary included
SoleTaggedUnmarked(fs) ==
    /\ Len(fs) = 1
    /\ HasPrefix(fs[1].name, uploaderName)
    /\ ~Contains(fs[1].name, recreatedCompactedDBSuffix)
PolicyExceeds(fs) == SoleTaggedUnmarked(fs) /\ fs[1].age > recreateCompactedDBOlderThan
PolicyAtLeast(fs) == SoleTaggedUnmarked(fs) /\ fs[1].age >= recreateCompactedDBOlderThan

\* the loop of lines 170-182 has run over every tenant of the map
RecheckOver == pc = "commit"
CommittedDb == commonCommits # <<>> /\ Last(commonCommits).compacted = "db"

\* C11 as stated: mustRecreateCompactedDB is true exactly for a sole
\* producer-tagged file without the recreated marker whose age exceeds the
\* threshold; seen in what CompactTable recreates (lines 157, 175).
C11_Original ==
    /\ RecheckOver
          => \A t \in Present :
                /\ mustRecreateCompactedDB(files[t]) <=> PolicyExceeds(files[t])
                /\ ucis[t].recreated <=> PolicyExceeds(files[t])
    /\ CommittedDb
          => /\ mustRecreateCompactedDB(files[Common]) <=> PolicyExceeds(files[Common])
             /\ Last(commonCommits).recreated <=> PolicyExceeds(files[Common])

\* C11 amended: the same with "age is at least the threshold": a file whose
\* age equals the threshold is recreated, only a younger one is not.
C11_RecreationGating ==
    /\ \A m \in Merges : mustRecreateCompactedDB(files[m]) <=> PolicyAtLeast(files[m])
    /\ RecheckOver
          => \A t \in Present : ucis[t].recreated <=> PolicyAtLeast(files[t])
    /\ CommittedDb
          => Last(commonCommits).recreated <=> PolicyAtLeast(files[Common])

\* C11 witness: the re-check loop is over with the common output recreated
\* and committed, one tenant of threshold age recreated and one young tenant
\* left alone.
C11_Witness ==
    /\ RecheckOver
    /\ CommittedDb /\ Last(commonCommits).recreated
    /\ \E t \in Present :
          ucis[t].recreated /\ files[t][1].age = recreateCompactedDBOlderThan
    /\ \E t \in Present : Len(files[t]) = 1 /\ ~ucis[t].recreated

\* C11 witness of a refusal: an already recreated old file was the common
\* listing of a run that got past the decision without a common commit.
C11_WitnessMarked ==
    /\ RecheckOver
    /\ files[Common] = <<cSeedR>>
    /\ commonCommits = <<>>

\* the tenants whose index-set was first created during the common merge
Discovered == {t \in Tenants \ existingUsers : ucis[t].present}

\* C12: when CompactTable returns success, SetCompactedIndex has succeeded
\* exactly once for every tenant of existingUserIndexSet and for every tenant
\* whose index-set the common merge created, whatever its needsUpload flag, and
\* for no other tenant; no tenant is ever committed twice.
C12_EveryTenantCommittedOnce ==
    /\ \A t \in Tenants : Len(userCommits[t]) <= 1
    /\ result = "ok"
          => /\ existingUsers \subseteq Present
             /\ \A t \in Tenants :
                   IF t \in existingUsers \cup Discovered
                   THEN Len(userCommits[t]) = 1
                   ELSE userCommits[t] = <<>>

\* C12 witness: a successful run committed an existing tenant with needsUpload
\* false and a tenant that the common merge discovered.
C12_Witness ==
    /\ result = "ok"
    /\ \E t \in existingUsers : Len(userCommits[t]) = 1 /\ ~userCommits[t][1].upload
    /\ \E t \in Discovered : Len(userCommits[t]) = 1

SeedOf(m) == {compactedFileIdx(files[m])} \ {0}
\* every callback of readFile for file i of merge m ended in a successful write
AllBatchesWritten(m, i) ==
    \A b \in 1..Len(Batches(files[m][i])) :
        \E w \in writes : w.m = m /\ w.i = i /\ w.b = b
NoDuplicates(q) == \A a, b \in 1..Len(q) : a # b => q[a] # q[b]

\* C13: in every state of every merge the consumed list holds nothing but the
\* seed and files whose job ended after every batch was written; a file whose
\* job failed or has not run (deadline, cancellation) is not in it; no file is
\* in it twice; readFile is called at most once per file and never on the seed.
C13_ConsumedListSound ==
    \A m \in Merges :
        /\ NoDuplicates(mConsumed[m])
        /\ Range(mConsumed[m]) \subseteq DoneJobs(m) \cup SeedOf(m)
        /\ \A i \in Range(mConsumed[m]) \ SeedOf(m) : AllBatchesWritten(m, i)
        /\ \A i \in (1..Len(files[m])) \ SeedOf(m) :
              jobs[m][i].st \in {"failed", "todo"} => i \notin Range(mConsumed[m])
        /\ \A i \in 1..Len(files[m]) :
              /\ readFileCalls[m][i] <= 1
              /\ i \in SeedOf(m) => readFileCalls[m][i] = 0

\* C13 witness: a merge over a seed and two files has returned with one file
\* failed in the middle and left out, the other consumed next to the seed.
C13_Witness ==
    /\ mst[Common] = "returned"
    /\ SeedOf(Common) # {}
    /\ MidFileFailures(Common) # {}
    /\ Cardinality(Range(mConsumed[Common])) = 2
    /\ DoneJobs(Common) # {}

\* C13 witness of the deadline: the merge has returned with a file that was
\* skipped because the deadline had passed, and that is not in the list.
C13_WitnessSkipped ==
    /\ mst[Common] = "returned"
    /\ hasDeadline /\ expired
    /\ DoneJobs(Common) # {}
    /\ \E i \in Todo(Common) : i \notin SeedOf(Common)

\* C14 as stated: for every tenant the factory and the output allocation run
\* at most once in the run, all callers get the same index-set, and the map
\* entry is assigned at most once.
C14_Original ==
    \A t \in Tenants :
        /\ allocs[t] <= 1
        /\ stores[t] <= 1
        /\ Cardinality(received[t]) <= 1

\* C14 amended: the factory and the allocation succeed at most once per tenant
\* (an attempt that fails leaves no entry, and the next caller runs the factory
\* again); they never run for a tenant that has an entry or is known at
\* discovery; every caller that gets an index-set gets the one entry, which is
\* assigned once and never replaced.
C14_Memoized ==
    \A t \in Tenants :
        /\ stores[t] <= 1
        /\ allocs[t] <= 1 + faults
        /\ faults = 0 => allocs[t] <= 1
        /\ t \in existingUsers => allocs[t] = 0
        /\ ucis[t].present <=> stores[t] = 1
        /\ ucis[t].present => ucis[t].id = 1
        /\ received[t] \subseteq {1}
        /\ received[t] # {} => ucis[t].present

\* C14 witness: two workers of the common merge missed the same new tenant
\* under the read lock; one created its index-set, the other found it at the
\* re-check, and both now hold it.
C14_Witness ==
    \E t \in Tenants \ existingUsers :
        /\ stores[t] = 1 /\ allocs[t] = 1 /\ received[t] = {1}
        /\ \E i, j \in 1..Len(files[Common]) :
              /\ i # j
              /\ jobs[Common][i].st = "write" /\ ~jobs[Common][i].ok
              /\ jobs[Common][j].st = "write" /\ ~jobs[Common][j].ok
              /\ BatchAt(Common, i).sec = t /\ BatchAt(Common, j).sec = t

\* the output of tenant t received a batch from the common merge
TouchedByCommon(t) == \E w \in writes : w.m = Common /\ w.dest = t

\* C15 as stated: the re-check of lines 170-182 never recreates the output of
\* a tenant that the common merge wrote to; once the loop is over, a tenant it
\* did not write to is recreated, with needsUpload true, exactly when its own
\* source files satisfy the recreation policy.
C15_OnlyUntouchedRecreated ==
    \A t \in Present :
        /\ TouchedByCommon(t) => ~ucis[t].recreated
        /\ (RecheckOver /\ ~TouchedByCommon(t))
              => /\ ucis[t].recreated <=> mustRecreateCompactedDB(files[t])
                 /\ ucis[t].recreated => ucis[t].needsUpload

\* the listings the claim says are left alone: no file, or one producer-tagged
\* file that the recreation policy does not select
LeftAlone(fs) ==
    \/ Len(fs) = 0
    \/ /\ Len(fs) = 1
       /\ HasPrefix(fs[1].name, uploaderName)
       /\ ~mustRecreateCompactedDB(fs)
PastDecision == pc \in {"merging", "recheck", "commit"} \/ result = "ok"
PrefetchComplete == \A t \in existingUsers : pf[t] = "done" /\ ucis[t].present

\* C16: the common merge starts, and the common index-set is committed (once),
\* only for a listing with several files, one untagged file, or one file the
\* recreation policy selects, and then always (short of an error); for the
\* other listings the merge never starts, the common index-set is never
\* committed and a successful run makes the tenant commits only; the prefetch
\* of all tenants is over before the decision in both cases.
C16_Decision ==
    /\ Len(commonCommits) <= 1
    /\ mst[Common] # "idle" => ~LeftAlone(files[Common]) /\ PrefetchComplete
    /\ commonCommits # <<>> => ~LeftAlone(files[Common]) /\ mst[Common] = "returned"
    /\ PastDecision => PrefetchComplete
    /\ PastDecision => (mst[Common] # "idle" <=> ~LeftAlone(files[Common]))
    /\ (pc \in {"recheck", "commit"} \/ result = "ok")
          => (commonCommits # <<>> <=> ~LeftAlone(files[Common]))
    /\ (LeftAlone(files[Common]) /\ result = "ok")
          => \A t \in existingUsers : Len(userCommits[t]) = 1

\* C16 witness: a successful run over one old producer-tagged common file and
\* an existing tenant merged and committed the common index-set.
C16_Witness ==
    /\ result = "ok"
    /\ Len(files[Common]) = 1 /\ HasPrefix(files[Common][1].name, uploaderName)
    /\ Len(commonCommits) = 1
    /\ existingUsers # {}

\* C16 witness of the other case: a successful run over one young
\* producer-tagged common file committed its tenants and nothing else.
C16_WitnessLeftAlone ==
    /\ result = "ok"
    /\ Len(files[Common]) = 1 /\ LeftAlone(files[Common])
    /\ commonCommits = <<>> /\ mst[Common] = "idle"
    /\ \E t \in existingUsers : Len(userCommits[t]) = 1

\* C17: the commit of the common index-set after a merge: an empty output is
\* cleaned up and the commit carries no compacted index; a non-empty output is
\* committed as it is, never cleaned up, recreated first exactly when the
\* listing satisfies the recreation policy; both carry the consumed list of
\* the merge (every file, when no job failed and no deadline passed) and
\* isFinal = true.
C17_CommonCommit ==
    \A k \in 1..Len(commonCommits) :
        LET c == commonCommits[k]
        IN  /\ c.final
            /\ c.consumed = Range(mConsumed[Common])
            /\ (~mErr[Common] /\ ~expired) => c.consumed = 1..Len(files[Common])
            /\ (c.compacted = "nil") <=> (mOut[Common] = {})
            /\ (c.compacted = "db") <=> (mOut[Common] # {})
            /\ c.cleaned <=> (mOut[Common] = {})
            /\ c.compacted = "db" => c.out = mOut[Common] /\ c.out # {}
            /\ c.recreated
                  <=> (mOut[Common] # {} /\ mustRecreateCompactedDB(files[Common]))

\* C17 witness: the common merge moved everything to the tenants, its empty
\* output was cleaned up and the commit names the consumed file.
C17_Witness ==
    /\ Len(commonCommits) = 1
    /\ commonCommits[1].cleaned /\ commonCommits[1].compacted = "nil"
    /\ commonCommits[1].consumed = {1}
    /\ \E t \in Tenants : TouchedByCommon(t)

\* C17 witness of the other case: a non-empty output was recreated and
\* committed.
C17_WitnessRecreated ==
    /\ Len(commonCommits) = 1
    /\ commonCommits[1].compacted = "db" /\ commonCommits[1].recreated
    /\ ~commonCommits[1].cleaned

\* the batches of a sequence of callbacks that carry the name sec, in order
RECURSIVE BatchesNamed(_, _)
BatchesNamed(bs, sec) ==
    IF bs = <<>> THEN <<>>
    ELSE (IF bs[1].sec = sec THEN <<bs[1].keys>> ELSE <<>>)
            \o BatchesNamed(Tail(bs), sec)
RECURSIVE Concat(_)
Concat(qs) == IF qs = <<>> THEN <<>> ELSE qs[1] \o Concat(Tail(qs))

\* the callbacks of readFile for file f, bucket by bucket
SectionWellBatched(f, j) ==
    LET keys == f.secs[j].keys
        q == BatchesNamed(Batches(f), f.secs[j].sec)
    IN  /\ Concat(q) = keys
        /\ Len(q) = (Len(keys) \div BatchSize) + 1
        /\ \A k \in 1..(Len(q) - 1) : Len(q[k]) = BatchSize
        /\ Len(q[Len(q)]) = Len(keys) % BatchSize
\* the callbacks follow the order of the buckets and name buckets of the file
SectionsInOrder(f) ==
    LET bs == Batches(f)
        At(b) == CHOOSE j \in 1..Len(f.secs) : f.secs[j].sec = bs[b].sec
    IN  /\ \A b \in 1..Len(bs) : \E j \in 1..Len(f.secs) : f.secs[j].sec = bs[b].sec
        /\ \A a, b \in 1..Len(bs) : a < b => At(a) <= At(b)
WrittenBatches(m, i) == {w.b : w \in {x \in writes : x.m = m /\ x.i = i}}

\* C18: for every file handed to readFile, the callbacks of a bucket carry
\* that bucket's name, concatenate to its entries in order, hold BatchSize
\* entries each but the last, which holds the rest (possibly none), and come
\* bucket after bucket; every write is the batch of its callback; the read
\* stops at the first callback that fails, and that fails the job; a failure
\* of Close or Remove does not.
C18_BatchReader ==
    \A m \in Merges : \A i \in 1..Len(files[m]) :
        LET f == files[m][i]
            bs == Batches(f)
            j == jobs[m][i]
        IN  readFileCalls[m][i] > 0
            => /\ \A k \in 1..Len(f.secs) : SectionWellBatched(f, k)
               /\ SectionsInOrder(f)
               /\ \A b \in 1..Len(bs) : Len(bs[b].keys) <= BatchSize
               /\ \A w \in writes :
                     (w.m = m /\ w.i = i)
                        => /\ w.b \in 1..Len(bs)
                           /\ w.sec = bs[w.b].sec
                           /\ w.keys = Range(bs[w.b].keys)
               /\ j.st \in {"read", "goc", "write", "failed"}
                     => WrittenBatches(m, i) = 1..(j.b - 1)
               /\ j.st \in {"append", "done"}
                     => WrittenBatches(m, i) = 1..Len(bs)
               /\ j.st = "failed" => mErr[m] /\ <<m, i>> \notin cleanupFailed
               /\ <<m, i>> \in cleanupFailed => j.st \in {"append", "done"}

\* C18 witness: a file whose bucket holds an exact number of full batches and
\* whose second bucket is empty was read to the end, and its Close or Remove
\* failed.
C18_Witness ==
    \E i \in 1..Len(files[Common]) :
        /\ files[Common][i] = rawE
        /\ jobs[Common][i].st = "done"
        /\ <<Common, i>> \in cleanupFailed
        /\ Cardinality(WrittenBatches(Common, i)) = Len(Batches(rawE))

\* C18 witness of the stop: a read of a three-entry bucket failed at the
\* callback of its trailing batch, after the full batch was written.
C18_WitnessStopped ==
    \E i \in 1..Len(files[Common]) :
        /\ files[Common][i] = rawC
        /\ jobs[Common][i].st = "failed" /\ jobs[Common][i].b = 2
        /\ WrittenBatches(Common, i) = {1}

\* the output database of tenant t is open: its merge opened it, or it is the
\* CompactedIndex of an entry of the map
UserHandleOpen(t) == Opened(t) \/ ucis[t].present

\* C19 as stated: when CompactTable has returned, with success or with an
\* error, every output database that was opened has been passed to
\* SetCompactedIndex or cleaned up.
C19_NoHandleLeftOpen ==
    pc = "done"
        => /\ Opened(Common) => commonCommits # <<>>
           /\ \A t \in Tenants : UserHandleOpen(t) => userCommits[t] # <<>>

\* C20: a tenant is committed with needsUpload true whenever its output got a
\* batch from the common merge, came out of a merge of the tenant's files, was
\* newly allocated, or was recreated; it is committed with needsUpload false
\* only when its output is the one existing file of the tenant, as it was.
C20_NeedsUploadSound ==
    \A t \in Tenants : \A k \in 1..Len(userCommits[t]) :
        LET c == userCommits[t][k]
        IN  /\ (TouchedByCommon(t) \/ ucis[t].origin \in {"merge", "fresh"}
                    \/ ucis[t].recreated \/ c.recreated)
                  => c.upload
            /\ ~c.upload
                  => /\ ucis[t].origin = "file"
                     /\ Len(files[t]) = 1
                     /\ c.out = KeysOfListing(files[t])
                     /\ allocs[t] = 0
                     /\ ~c.recreated

\* C20 witness: a successful run committed, with needsUpload true, an existing
\* one-file tenant that the common merge wrote to after marking it under the
\* exclusive lock, and a tenant that the common merge created.
C20_Witness ==
    /\ result = "ok"
    /\ \E t \in existingUsers :
          /\ ucis[t].origin = "file" /\ TouchedByCommon(t) /\ ~ucis[t].recreated
          /\ Len(userCommits[t]) = 1 /\ userCommits[t][1].upload
    /\ \E t \in Discovered : Len(userCommits[t]) = 1 /\ userCommits[t][1].upload

\* C20 witness of the other side: a tenant was committed with needsUpload
\* false while another was committed recreated.
C20_WitnessUntouched ==
    /\ result = "ok"
    /\ \E t \in Tenants : Len(userCommits[t]) = 1 /\ ~userCommits[t][1].upload
    /\ \E t \in Tenants : Len(userCommits[t]) = 1 /\ userCommits[t][1].recreated

\* the merge of tenant t's files returned its output after a job had failed
CheckpointedPartialFailure(t) == mst[t] = "returned" /\ mErr[t]

\* C21 as stated: no commit names as consumed a file that was not read to the
\* end in this run; in particular, after a tenant merge that was checkpointed
\* with a failed file, the SetCompactedIndex call on that tenant's index-set
\* carries the consumed list the merge computed.
C21_ConsumedListReachesCommit ==
    /\ \A k \in 1..Len(commonCommits) :
          commonCommits[k].consumed \subseteq DoneJobs(Common) \cup SeedOf(Common)
    /\ \A t \in Tenants : \A k \in 1..Len(userCommits[t]) :
          CheckpointedPartialFailure(t)
             => /\ userCommits[t][k].consumed # "nil"
                /\ userCommits[t][k].consumed = Range(mConsumed[t])

====
